---- MODULE Spec2Model ----
(***************************************************************************)
(* A model of plat.py: the tile map (loading, tile queries, the sub-stepped *)
(* collision resolver move_box), the player's physics tick, the lap timer   *)
(* and the tick driver of main().                                           *)
(*                                                                          *)
(* Numbers.  The program computes positions and velocities in floating      *)
(* point.  The model keeps them in fixed point: an integer u stands for the *)
(* real u / Scale.  Products and quotients are rounded to the nearest       *)
(* representable value (RoundDiv), as floating point does at its own        *)
(* resolution.  Python's round() (half to even) and int() (truncation       *)
(* toward zero) are computed as Python computes them.                       *)
(***************************************************************************)
EXTENDS Integers, Sequences, FiniteSets, TLC

\* ------------------------------------------------------------------ bounds
Scale == 100            \* fixed-point resolution: 1 unit = 1/Scale
MaxFileLen == 7         \* characters of a map file (specification SpecLoad)

\* ------------------------------------------------------- program constants
TILE_SIZE == 64
PLAYER_SIZE == 64
AIR == 0
START == 78
FINISH == 110

\* --------------------------------------------------------------- arithmetic
Min(a, b) == IF a < b THEN a ELSE b
Max(a, b) == IF a > b THEN a ELSE b
Abs(a) == IF a < 0 THEN -a ELSE a

\* a / b rounded to the nearest integer (b > 0); ties round up
RoundDiv(a, b) == (2 * a + b) \div (2 * b)

\* int(x / d) of Python for an int x and d > 0: true division, then
\* truncation toward zero
TruncDiv(x, d) == IF x >= 0 THEN x \div d ELSE -((-x) \div d)

\* int(round(v)) of Python 3 for the real u / Scale: round half to even
PyRound(u) ==
  LET q == u \div Scale
      r == u % Scale
  IN  IF 2 * r < Scale THEN q
      ELSE IF 2 * r > Scale THEN q + 1
      ELSE IF q % 2 = 0 THEN q ELSE q + 1

\* floor(sqrt(n)) for n >= 0, searched below a bound hi with hi*hi >= n
ISqrt(n, hi) == CHOOSE r \in 0..hi : r * r <= n /\ (r + 1) * (r + 1) > n

VARIABLES
  file,       \* SpecLoad: the characters of the map file
  lines,      \* SpecLoad: the lines of file.readlines() not yet processed
  status,     \* SpecLoad: "loading", "loaded", "ValueError", "RuntimeError"
  map,        \* the Map object: [tiles, width, height]
  mb,         \* SpecMove: the running call of move_box
  q,          \* SpecTile: the tile query made and what it returned
  pc,         \* main(): where the game loop stands
  inputs,     \* Game.inputs: the set of Input members mapped to True
  last_tick,  \* main(): last_tick
  new_tick,   \* main(): new_tick
  tick,       \* main(): the loop variable of `for tick in range(...)`
  pos,        \* Player.pos
  vel,        \* Player.vel
  time,       \* Player.time: [begin, finish, best]
  processed,  \* history: the ticks passed to Game.logic, in order
  physics_runs, \* history: the number of calls of Game.physics
  monotone    \* history: no clock reading was below the one before it

loadVars == <<file, lines, status>>
moveVars == <<mb>>
tileVars == <<q>>
playerVars == <<pos, vel, time>>
loopVars == <<pc, inputs, last_tick, new_tick, tick>>
historyVars == <<processed, physics_runs, monotone>>
gameVars == <<playerVars, loopVars, historyVars>>
vars == <<loadVars, map, moveVars, tileVars, gameVars>>

\* ------------------------------------------------------------- Map.__init__
Chars == {"0", "1", " ", "\n"}
Digits == {"0", "1"}
DigitValue(c) == IF c = "1" THEN 1 ELSE 0

\* file.readlines(): every line keeps its terminating "\n"; a last line
\* without one is a line too; the empty string is never a line
RECURSIVE readlines_from(_, _)
readlines_from(text, cur) ==
  IF text = <<>> THEN (IF cur = <<>> THEN <<>> ELSE <<cur>>)
  ELSE IF Head(text) = "\n"
       THEN <<Append(cur, "\n")>> \o readlines_from(Tail(text), <<>>)
       ELSE readlines_from(Tail(text), Append(cur, Head(text)))

readlines(text) == readlines_from(text, <<>>)

\* line.split(' '): the pieces between single spaces, empty pieces included
RECURSIVE split_from(_, _)
split_from(line, cur) ==
  IF line = <<>> THEN <<cur>>
  ELSE IF Head(line) = " "
       THEN <<cur>> \o split_from(Tail(line), <<>>)
       ELSE split_from(Tail(line), Append(cur, Head(line)))

split(line) == split_from(line, <<>>)

\* int(word) strips surrounding whitespace (here: the line's "\n") and
\* then needs at least one digit; otherwise it raises ValueError
Strip(word) == SelectSeq(word, LAMBDA c : c # "\n")
IsInt(word) ==
  /\ Strip(word) # <<>>
  /\ \A i \in 1..Len(word) : word[i] = "\n" => i = Len(word)
  /\ \A i \in 1..Len(Strip(word)) : Strip(word)[i] \in Digits

RECURSIVE DecimalValue(_)
DecimalValue(ds) ==
  IF ds = <<>> THEN 0
  ELSE 10 * DecimalValue(SubSeq(ds, 1, Len(ds) - 1)) + DigitValue(ds[Len(ds)])

int(word) == DecimalValue(Strip(word))

\* the words of a line that are not skipped by `if word == "": continue`
Tokens(line) == SelectSeq(split(line), LAMBDA w : w # <<>>)

\* the values appended before the first word int() rejects
RECURSIVE ValuesOf(_)
ValuesOf(toks) ==
  IF toks = <<>> \/ ~IsInt(Head(toks)) THEN <<>>
  ELSE <<int(Head(toks))>> \o ValuesOf(Tail(toks))

EmptyMap == [tiles |-> <<>>, width |-> 0, height |-> 0]
IdleMove == [pc |-> "idle"]
IdleQuery == [pc |-> "idle"]

\* the variables of the game loop, in the specifications that run no game
GameUnused ==
  /\ pc = "none"
  /\ inputs = {}
  /\ last_tick = 0
  /\ new_tick = 0
  /\ tick = 0
  /\ pos = <<0, 0>>
  /\ vel = <<0, 0>>
  /\ time = [begin |-> -1, finish |-> -1, best |-> -1]
  /\ processed = <<>>
  /\ physics_runs = 0
  /\ monotone = TRUE

\* the variables of the loader, once a map is loaded
LoadUnused ==
  /\ file = <<>>
  /\ lines = <<>>
  /\ status = "loaded"

\* one iteration of `for line in file.readlines()`: [map, status]
LoadLineNoCheck(m, line) ==
  LET toks == Tokens(line)
      vals == ValuesOf(toks)
      m1 == [m EXCEPT !.tiles = @ \o vals]
  IN  IF Len(vals) < Len(toks) THEN [map |-> m1, status |-> "ValueError"]
      ELSE [map |-> [m1 EXCEPT !.width = Len(toks), !.height = @ + 1],
            status |-> "loading"]

LoadLineStep(m, line) ==
  LET toks == Tokens(line)
      vals == ValuesOf(toks)
      m1 == [m EXCEPT !.tiles = @ \o vals]
  IN  IF Len(vals) < Len(toks) THEN [map |-> m1, status |-> "ValueError"]
      ELSE IF m.width > 0 /\ m.width # Len(toks)
           THEN [map |-> m1, status |-> "RuntimeError"]
      ELSE [map |-> [m1 EXCEPT !.width = Len(toks), !.height = @ + 1],
            status |-> "loading"]

Files == UNION {[1..n -> Chars] : n \in 0..MaxFileLen}

InitLoad ==
  /\ file \in Files
  /\ lines = readlines(file)
  /\ status = "loading"
  /\ map = EmptyMap
  /\ mb = IdleMove
  /\ q = IdleQuery
  /\ GameUnused

LoadLine ==
  /\ status = "loading"
  /\ lines # <<>>
  /\ LET r == LoadLineStep(map, Head(lines))
     IN  /\ map' = r.map
         /\ status' = r.status
  /\ lines' = Tail(lines)
  /\ UNCHANGED <<file, moveVars, tileVars, gameVars>>

LoadDone ==
  /\ status = "loading"
  /\ lines = <<>>
  /\ status' = "loaded"
  /\ UNCHANGED <<file, lines, map, moveVars, tileVars, gameVars>>

NextLoad == LoadLine \/ LoadDone

SpecLoad == InitLoad /\ [][NextLoad]_vars


\* -------------------------------------------------------------- tile queries
\* the Map a rectangular file leaves: rows is the sequence of its rows
RECURSIVE Flatten(_)
Flatten(rows) == IF rows = <<>> THEN <<>> ELSE Head(rows) \o Flatten(Tail(rows))

Grid(rows) ==
  [tiles |-> Flatten(rows), width |-> Len(rows[1]), height |-> Len(rows)]

\* the index Map.__get_tile reads for the integer coordinates x, y
TileColumnNoLowerClamp(g, x) == Min(TruncDiv(x, TILE_SIZE), g.width - 1)

TileColumn(g, x) == Min(Max(TruncDiv(x, TILE_SIZE), 0), g.width - 1)
TileRow(g, y) == Min(Max(TruncDiv(y, TILE_SIZE), 0), g.height - 1)
TileIndex(g, x, y) == TileRow(g, y) * g.width + TileColumn(g, x)

\* Python's list index list[i]: 0-based, a negative i counts from the end,
\* anything else raises IndexError
PyIndex(list, i) ==
  IF 0 <= i /\ i < Len(list) THEN list[i + 1]
  ELSE IF -Len(list) <= i /\ i < 0 THEN list[Len(list) + i + 1]
  ELSE "IndexError"

__get_tile(g, x, y) == PyIndex(g.tiles, TileIndex(g, x, y))

get_tile(g, p) == __get_tile(g, PyRound(p[1]), PyRound(p[2]))

__is_solid(g, x, y) == __get_tile(g, x, y) \notin {AIR, START, FINISH}

is_solid(g, p) == __is_solid(g, PyRound(p[1]), PyRound(p[2]))

\* size * 0.5
Half(size) == <<size[1] \div 2, size[2] \div 2>>

on_ground(g, p, size) ==
  LET h == Half(size)
  IN  \/ is_solid(g, <<p[1] - h[1], p[2] + h[2] + Scale>>)
      \/ is_solid(g, <<p[1] + h[1], p[2] + h[2] + Scale>>)

\* the four sampled corners of the box
Corners(p, size) ==
  LET h == Half(size)
  IN  {<<p[1] - h[1], p[2] - h[2]>>, <<p[1] + h[1], p[2] - h[2]>>,
       <<p[1] - h[1], p[2] + h[2]>>, <<p[1] + h[1], p[2] + h[2]>>}

test_box(g, p, size) == \E c \in Corners(p, size) : is_solid(g, c)

PlayerSize == <<PLAYER_SIZE * Scale, PLAYER_SIZE * Scale>>


\* ---- SpecTile: one call of get_tile and is_solid on a loaded grid
TileGrids ==
  {Grid(<< <<5>> >>),
   Grid(<< <<0, 78>>, <<110, 1>> >>),
   Grid(<< <<0, 1, 78>> >>),
   Grid(<< <<1>>, <<0>>, <<110>> >>)}

\* world coordinates before, on and past every tile boundary of the grids
QueryCoords ==
  {k * Scale + f : k \in {-65, -1, 0, 63, 64, 127, 128, 200},
                   f \in {0, 1, Scale \div 2, Scale - 1}}

InitTile ==
  /\ map \in TileGrids
  /\ q = IdleQuery
  /\ mb = IdleMove
  /\ LoadUnused
  /\ GameUnused

GetTile ==
  /\ q.pc = "idle"
  /\ \E x \in QueryCoords, y \in QueryCoords :
       q' = [pc |-> "done", pos |-> <<x, y>>,
             index |-> TileIndex(map, PyRound(x), PyRound(y)),
             tile |-> get_tile(map, <<x, y>>),
             solid |-> is_solid(map, <<x, y>>)]
  /\ UNCHANGED <<loadVars, map, moveVars, gameVars>>

NextTile == GetTile

SpecTile == InitTile /\ [][NextTile]_vars

\* ------------------------------------------------------------ Map.move_box
\* int(vel.len()): floor of the Euclidean length, in whole units
Maximum(v) ==
  ISqrt((v[1] * v[1] + v[2] * v[2]) \div (Scale * Scale),
        (Abs(v[1]) + Abs(v[2])) \div Scale + 1)

\* new_pos = pos + vel * fraction, fraction = 1.0 / float(maximum + 1)
AdvanceNoReciprocal(p, v, maximum) ==
  <<p[1] + v[1] * (maximum + 1), p[2] + v[2] * (maximum + 1)>>

Advance(p, v, maximum) ==
  <<p[1] + RoundDiv(v[1], maximum + 1), p[2] + RoundDiv(v[2], maximum + 1)>>

\* The body of `if self.test_box(new_pos, size)` works on c = [np, vel,
\* result, hit]: the candidate new_pos, the velocity, the collision set and
\* the flag hit; p is pos, the position before the sub-step.
OnHitYNoSnap(c, p) ==
  [c EXCEPT !.result = @ \cup {"Y"}, !.vel[2] = 0, !.hit = TRUE]

OnHitY(c, p) ==
  [c EXCEPT !.result = @ \cup {"Y"}, !.np[2] = p[2], !.vel[2] = 0,
            !.hit = TRUE]

OnHitXKeepVel(c, p) ==
  [c EXCEPT !.result = @ \cup {"X"}, !.np[1] = p[1], !.hit = TRUE]

OnHitX(c, p) ==
  [c EXCEPT !.result = @ \cup {"X"}, !.np[1] = p[1], !.vel[1] = 0,
            !.hit = TRUE]

OnCornerKeepMotion(c, p) ==
  [c EXCEPT !.result = @ \cup {"CORNER"}, !.vel = <<0, 0>>]

OnCorner(c, p) ==
  [c EXCEPT !.result = @ \cup {"CORNER"}, !.np = p, !.vel = <<0, 0>>]

\* one iteration of `for i in range(0, maximum + 1)` on s = [pos, vel,
\* result]
SubStep(g, s, size, maximum) ==
  LET np == Advance(s.pos, s.vel, maximum)
      c0 == [np |-> np, vel |-> s.vel, result |-> s.result, hit |-> FALSE]
      c1 == IF test_box(g, <<s.pos[1], c0.np[2]>>, size)
            THEN OnHitY(c0, s.pos) ELSE c0
      c2 == IF test_box(g, <<c1.np[1], s.pos[2]>>, size)
            THEN OnHitX(c1, s.pos) ELSE c1
      c3 == IF ~c2.hit THEN OnCorner(c2, s.pos) ELSE c2
  IN  IF test_box(g, np, size)
      THEN [pos |-> c3.np, vel |-> c3.vel, result |-> c3.result]
      ELSE [pos |-> np, vel |-> s.vel, result |-> s.result]

RECURSIVE MoveLoop(_, _, _, _, _)
MoveLoop(g, s, size, maximum, i) ==
  IF i > maximum THEN s
  ELSE LET s1 == SubStep(g, s, size, maximum)
       IN  \* the test evaluates s1 before the next iteration starts
           IF s1.pos = s1.pos
           THEN MoveLoop(g, s1, size, maximum, i + 1)
           ELSE s1

\* the whole call: [result, pos, vel].  `distance < 0` never holds for a
\* length, so the early return is never taken.
move_box(g, p, v, size) ==
  MoveLoop(g, [pos |-> p, vel |-> v, result |-> {}], size, Maximum(v), 0)


\* the positions the sub-steps of a move_box call leave, one per sub-step
RECURSIVE MovePathFrom(_, _, _, _, _)
MovePathFrom(g, s, size, maximum, i) ==
  IF i > maximum THEN {}
  ELSE LET s1 == SubStep(g, s, size, maximum)
       IN  IF s1.pos = s1.pos
           THEN {s1.pos} \cup MovePathFrom(g, s1, size, maximum, i + 1)
           ELSE {}

MovePath(g, p, v, size) ==
  MovePathFrom(g, [pos |-> p, vel |-> v, result |-> {}], size, Maximum(v), 0)

\* ---- SpecMove: one call of move_box, sub-step by sub-step
SingleRowGrid == Grid(<< <<0, 0, 0>>, <<1, 1, 1>>, <<0, 0, 0>> >>)
SingleTileGrid == Grid(<< <<0, 0, 0>>, <<0, 1, 0>>, <<0, 0, 0>> >>)
WallFloorGrid == Grid(<< <<0, 1, 0>>, <<1, 1, 1>>, <<0, 0, 0>> >>)
MoveGrids == {SingleRowGrid, SingleTileGrid, WallFloorGrid}

\* box centres whose bottom-right corner lies just before the tile boundary
\* at 64, and centres whose top edge lies just past the boundary at 128
NearOffsets == {Scale \div 4, (3 * Scale) \div 4, (5 * Scale) \div 2}
MoveXs == {32 * Scale - k : k \in NearOffsets}
MoveYs == MoveXs \cup {160 * Scale + Scale \div 4, 161 * Scale}
MovePositions == {<<x, y>> : x \in MoveXs, y \in MoveYs}
VelComponents ==
  {0, (3 * Scale) \div 4, -((3 * Scale) \div 4), 2 * Scale, -2 * Scale,
   45 * Scale + Scale \div 4, -(45 * Scale + Scale \div 4),
   64 * Scale, -(64 * Scale)}
MoveVelocities == {<<vx, vy>> : vx \in VelComponents, vy \in VelComponents}

InitMove ==
  /\ map \in MoveGrids
  /\ mb = IdleMove
  /\ q = IdleQuery
  /\ LoadUnused
  /\ GameUnused

MoveBoxCall ==
  /\ mb.pc = "idle"
  /\ \E p \in MovePositions, v \in MoveVelocities :
       mb' = [pc |-> "loop", pos0 |-> p, vel0 |-> v, pos |-> p, vel |-> v,
              result |-> {}, i |-> 0, maximum |-> Maximum(v)]
  /\ UNCHANGED <<loadVars, map, tileVars, gameVars>>

MoveBoxStep ==
  /\ mb.pc = "loop"
  /\ mb.i <= mb.maximum
  /\ LET s == SubStep(map, [pos |-> mb.pos, vel |-> mb.vel,
                            result |-> mb.result], PlayerSize, mb.maximum)
     IN  mb' = [mb EXCEPT !.pos = s.pos, !.vel = s.vel,
                          !.result = s.result, !.i = @ + 1]
  /\ UNCHANGED <<loadVars, map, tileVars, gameVars>>

MoveBoxReturn ==
  /\ mb.pc = "loop"
  /\ mb.i > mb.maximum
  /\ mb' = [mb EXCEPT !.pc = "returned"]
  /\ UNCHANGED <<loadVars, map, tileVars, gameVars>>

NextMove == MoveBoxCall \/ MoveBoxStep \/ MoveBoxReturn

SpecMove == InitMove /\ [][NextMove]_vars


\* ------------------------------------------------------------------- Player
SPAWN_X == 170
SPAWN_Y == 500
SpawnPos == <<SPAWN_X * Scale, SPAWN_Y * Scale>>

\* Player.restart on b = [pos, vel, time]
restartKeepTimer(b) ==
  [b EXCEPT !.pos = SpawnPos, !.vel = <<0, 0>>]

restart(b) ==
  [pos |-> SpawnPos, vel |-> <<0, 0>>,
   time |-> [b.time EXCEPT !.begin = -1, !.finish = -1]]

\* --------------------------------------------------------------------- Game
JUMP_SPEED == 21
MAX_SPEED == 8
\* 0.75, and the factors 0.5, 4.0, 0.95, 2.0, in hundredths
GRAVITY_100 == 75
GROUND_DAMP_100 == 50
GROUND_ACCEL_100 == 400
AIR_DAMP_100 == 95
AIR_ACCEL_100 == 200

Keys == {"LEFT", "RIGHT", "JUMP", "RESTART", "QUIT"}

\* self.player.vel.x = min(max(self.player.vel.x, -8), 8)
ClampSpeedNone(vx) == vx

ClampSpeed(vx) == Min(Max(vx, -(MAX_SPEED * Scale)), MAX_SPEED * Scale)

\* the velocity handed to move_box: jump impulse, gravity, horizontal
\* response and clamp, for the body b, the keys held and the ground flag
Kinematics(b, held, ground) ==
  LET vy0 == IF "JUMP" \in held /\ ground THEN -(JUMP_SPEED * Scale)
             ELSE b.vel[2]
      direction == (IF "RIGHT" \in held THEN 1 ELSE 0)
                   - (IF "LEFT" \in held THEN 1 ELSE 0)
      vy == vy0 + RoundDiv(GRAVITY_100 * Scale, 100)
      vx == IF ground
            THEN RoundDiv(GROUND_DAMP_100 * b.vel[1], 100)
                 + RoundDiv(GROUND_ACCEL_100 * Scale * direction, 100)
            ELSE RoundDiv(AIR_DAMP_100 * b.vel[1], 100)
                 + RoundDiv(AIR_ACCEL_100 * Scale * direction, 100)
  IN  <<ClampSpeed(vx), vy>>

\* Game.physics on the body b = [pos, vel, time]: the body it leaves
physics(g, b, held) ==
  LET b1 == IF "RESTART" \in held THEN restart(b) ELSE b
      ground == on_ground(g, b1.pos, PlayerSize)
      v == Kinematics(b1, held, ground)
      m == move_box(g, b1.pos, v, PlayerSize)
  IN  [pos |-> m.pos, vel |-> m.vel, time |-> b1.time]

\* Game.logic(tick) on the timer t, for the tile under the player
logicAlwaysBest(t, tile, n) ==
  IF tile = START THEN [t EXCEPT !.begin = n]
  ELSE IF tile = FINISH /\ t.begin >= 0
       THEN [begin |-> -1, finish |-> n - t.begin, best |-> n - t.begin]
  ELSE t

logic(t, tile, n) ==
  IF tile = START THEN [t EXCEPT !.begin = n]
  ELSE IF tile = FINISH /\ t.begin >= 0
       THEN LET f == n - t.begin
            IN  [begin |-> -1, finish |-> f,
                 best |-> IF t.best < 0 \/ f < t.best THEN f ELSE t.best]
  ELSE t

Body == [pos |-> pos, vel |-> vel, time |-> time]

\* ------------------------------------------------------------------- main()
\* ticks still to process when the clock reads t
Pending(t) == Max(0, t - last_tick)

\* Game.__init__ and the lines of main() before the loop
InitGame(maps) ==
  /\ map \in maps
  /\ LET b == restart([pos |-> <<0, 0>>, vel |-> <<0, 0>>,
                       time |-> [begin |-> -1, finish |-> -1, best |-> -1]])
     IN  /\ pos = b.pos
         /\ vel = b.vel
         /\ time = b.time
  /\ pc = "loop"
  /\ inputs = {}
  /\ last_tick = 0
  /\ new_tick = 0
  /\ tick = 0
  /\ processed = <<>>
  /\ physics_runs = 0
  /\ monotone = TRUE
  /\ mb = IdleMove
  /\ q = IdleQuery
  /\ LoadUnused

\* `while not game.inputs[Input.QUIT]` entered; game.handle_input()
HandleInput(choices) ==
  /\ pc = "loop"
  /\ "QUIT" \notin inputs
  /\ inputs' \in choices
  /\ pc' = "clock"
  /\ UNCHANGED <<last_tick, new_tick, tick, playerVars, historyVars>>

\* the loop left
Exit ==
  /\ pc = "loop"
  /\ "QUIT" \in inputs
  /\ pc' = "done"
  /\ UNCHANGED <<inputs, last_tick, new_tick, tick, playerVars, historyVars>>

\* new_tick = int((time() - start_time) * 50); the for loop is entered
ReadClock(readings, budget) ==
  /\ pc = "clock"
  /\ \E t \in readings :
       /\ Len(processed) + Pending(t) <= budget
       /\ new_tick' = t
       /\ monotone' = (monotone /\ t >= last_tick)
       /\ tick' = last_tick + 1
       /\ pc' = IF last_tick + 1 <= t THEN "physics" ELSE "render"
  /\ UNCHANGED <<inputs, last_tick, playerVars, processed, physics_runs>>

\* game.physics() (game.move_camera() moves only the camera)
Physics ==
  /\ pc = "physics"
  /\ LET b == physics(map, Body, inputs)
     IN  /\ pos' = b.pos
         /\ vel' = b.vel
         /\ time' = b.time
  /\ physics_runs' = physics_runs + 1
  /\ pc' = "logic"
  /\ UNCHANGED <<inputs, last_tick, new_tick, tick, processed, monotone>>

\* game.logic(tick), and the for loop's next iteration
Logic ==
  /\ pc = "logic"
  /\ time' = logic(time, get_tile(map, pos), tick)
  /\ processed' = Append(processed, tick)
  /\ tick' = tick + 1
  /\ pc' = IF tick + 1 <= new_tick THEN "physics" ELSE "render"
  /\ UNCHANGED <<inputs, last_tick, new_tick, pos, vel, physics_runs,
                 monotone>>

\* last_tick = new_tick; game.render(last_tick)
RenderKeepLastTick ==
  /\ pc = "render"
  /\ pc' = "loop"
  /\ UNCHANGED <<inputs, last_tick, new_tick, tick, playerVars, historyVars>>

Render ==
  /\ pc = "render"
  /\ last_tick' = new_tick
  /\ pc' = "loop"
  /\ UNCHANGED <<inputs, new_tick, tick, playerVars, historyVars>>

Others == <<loadVars, map, moveVars, tileVars>>

\* ---- Spec: every combination of held keys, every clock reading
MaxTick == 3

\* tile 1 is solid terrain.  The spawn box covers columns 2-3 of rows 7-8:
\* a wall left of it, START under the spawn point, FINISH below and right
\* of it, ground in row 9.
CourseMap ==
  Grid(<< <<0, 0, 0, 0, 0>>,
          <<0, 0, 0, 0, 0>>,
          <<0, 0, 0, 0, 0>>,
          <<0, 0, 0, 0, 0>>,
          <<0, 0, 0, 0, 0>>,
          <<0, 0, 0, 0, 0>>,
          <<0, 0, 0, 0, 0>>,
          <<0, 1, START, 0, 0>>,
          <<0, 1, FINISH, FINISH, 0>>,
          <<1, 1, 1, 1, 1>> >>)
\* the spawn box overlaps the ground of row 8
BuriedMap ==
  Grid(<< <<0, 0, 0, 0>>,
          <<0, 0, 0, 0>>,
          <<0, 0, 0, 0>>,
          <<0, 0, 0, 0>>,
          <<0, 0, 0, 0>>,
          <<0, 0, 0, 0>>,
          <<0, 0, 0, 0>>,
          <<0, 0, START, 0>>,
          <<1, 1, 1, 1>> >>)
GameMaps == {CourseMap, BuriedMap}

\* the keys held during one frame: any two or fewer
FrameInputs == {held \in SUBSET Keys : Cardinality(held) <= 2}

Init == InitGame(GameMaps)

Next ==
  \/ (HandleInput(FrameInputs) /\ UNCHANGED Others)
  \/ (Exit /\ UNCHANGED Others)
  \/ (ReadClock((-1)..MaxTick, MaxTick) /\ UNCHANGED Others)
  \/ (Physics /\ UNCHANGED Others)
  \/ (Logic /\ UNCHANGED Others)
  \/ (Render /\ UNCHANGED Others)

Spec == Init /\ [][Next]_vars


\* ---- SpecRun: long runs; a few key combinations, the clock never runs
\* backwards and is read at the instants ClockMarks
RunTicks == 13
RunInputs ==
  {{}, {"LEFT"}, {"RIGHT"}, {"JUMP"}, {"RESTART"}, {"RESTART", "RIGHT"},
   {"RIGHT", "JUMP"}, {"QUIT"}}
ClockMarks == {0, 6, 7, 11, 12, RunTicks}

InitRun == InitGame(GameMaps)

NextRun ==
  \/ (HandleInput(RunInputs) /\ UNCHANGED Others)
  \/ (Exit /\ UNCHANGED Others)
  \/ (ReadClock({t \in ClockMarks : t >= last_tick}, RunTicks)
        /\ UNCHANGED Others)
  \/ (Physics /\ UNCHANGED Others)
  \/ (Logic /\ UNCHANGED Others)
  \/ (Render /\ UNCHANGED Others)

SpecRun == InitRun /\ [][NextRun]_vars

\* ------------------------------------------------------------------ claims
FirstRowTokens == Len(Tokens(Head(readlines(file))))

\* C8: a load that completes without raising ends with
\* len(tiles) == width * height, and a line whose token count differs from
\* the first row's makes the load fail.
C8_LoadRectangular ==
  [][/\ status' = "loaded" => Len(map'.tiles) = map'.width * map'.height
     /\ (/\ status = "loading" /\ lines # <<>> /\ map.height >= 1
         /\ Len(Tokens(Head(lines))) # FirstRowTokens)
        => status' \in {"ValueError", "RuntimeError"}]_vars

C8_Witness ==
  /\ status = "loaded"
  /\ map.width = 2
  /\ map.height = 2
  /\ Len(map.tiles) = 4

\* C3: whenever the collision set of a move_box call contains X the
\* velocity's x component is 0, and whenever it contains Y the y component
\* is 0: after every sub-step and in what the call returns.
C3_HitAxisZeroed ==
  mb.pc # "idle" =>
    /\ "X" \in mb.result => mb.vel[1] = 0
    /\ "Y" \in mb.result => mb.vel[2] = 0

C3_Witness ==
  /\ mb.pc = "returned"
  /\ mb.result = {"X", "Y"}
  /\ mb.vel0[1] # 0
  /\ mb.vel0[2] # 0
  /\ mb.pos # mb.pos0

\* C4 as stated: a call that returns the collision set {CORNER} returns the
\* position passed in and the velocity (0, 0).
C4_CornerReturnsInput ==
  (mb.pc = "returned" /\ mb.result = {"CORNER"}) =>
    (mb.pos = mb.pos0 /\ mb.vel = <<0, 0>>)

\* C4 amended: in a call whose collision set is {CORNER}, the sub-step that
\* hits the corner and every later sub-step leave the position where the
\* earlier sub-steps had brought it, and the velocity is (0, 0); the motion
\* of the sub-steps before the corner is kept.
C4_CornerStopsMotion ==
  [][(mb.pc = "loop" /\ mb'.pc = "loop" /\ mb'.result = {"CORNER"}) =>
       (mb'.pos = mb.pos /\ mb'.vel = <<0, 0>>)]_vars

C4_Witness ==
  /\ mb.pc = "returned"
  /\ mb.result = {"CORNER"}
  /\ mb.vel = <<0, 0>>
  /\ mb.pos # mb.pos0
  /\ mb.maximum >= 2

\* C5: on a grid whose only solid tiles are one full row, a box that starts
\* clear of the row and moves toward it with |velocity| <= 64 has, after
\* every sub-step of one call, none of its sampled corners beyond the row.
IsSolidTile(t) == t \notin {AIR, START, FINISH}
RowSolid(g, r) ==
  \A c \in 0..(g.width - 1) : IsSolidTile(g.tiles[r * g.width + c + 1])
RowClear(g, r) ==
  \A c \in 0..(g.width - 1) : ~IsSolidTile(g.tiles[r * g.width + c + 1])
SolidRows(g) == {r \in 0..(g.height - 1) : RowSolid(g, r)}
IsSingleRowGrid(g) ==
  /\ Cardinality(SolidRows(g)) = 1
  /\ \A r \in 0..(g.height - 1) : RowSolid(g, r) \/ RowClear(g, r)
CornerYs(p) == {PyRound(c[2]) : c \in Corners(p, PlayerSize)}
SupportedSpeed(v) ==
  v[1] * v[1] + v[2] * v[2] <= (TILE_SIZE * Scale) * (TILE_SIZE * Scale)

C5_NoTunneling ==
  (/\ mb.pc # "idle"
   /\ IsSingleRowGrid(map)
   /\ ~test_box(map, mb.pos0, PlayerSize)
   /\ SupportedSpeed(mb.vel0)) =>
    LET r == CHOOSE row \in SolidRows(map) : TRUE
        near == r * TILE_SIZE
        far == (r + 1) * TILE_SIZE
    IN  /\ ((\A y \in CornerYs(mb.pos0) : y < near) /\ mb.vel0[2] > 0)
           => \A y \in CornerYs(mb.pos) : y < far
        /\ ((\A y \in CornerYs(mb.pos0) : y >= far) /\ mb.vel0[2] < 0)
           => \A y \in CornerYs(mb.pos) : y >= near

C5_Witness ==
  /\ mb.pc = "returned"
  /\ IsSingleRowGrid(map)
  /\ ~test_box(map, mb.pos0, PlayerSize)
  /\ mb.vel0 = <<0, 64 * Scale>>
  /\ \A y \in CornerYs(mb.pos0) : y < TILE_SIZE
  /\ "Y" \in mb.result
  /\ mb.pos # mb.pos0

\* C7 as stated: for a coordinate outside [0, width*64) x [0, height*64)
\* get_tile and is_solid return the value of the in-bounds cell nearest to
\* the coordinate, and the index read is within the tile list.
FloorDiv(a, b) == a \div b
Clamp(v, lo, hi) == Min(Max(v, lo), hi)
Outside(g, p) ==
  \/ p[1] < 0 \/ p[1] >= g.width * TILE_SIZE * Scale
  \/ p[2] < 0 \/ p[2] >= g.height * TILE_SIZE * Scale
NearestCell(g, x, y) ==
  Clamp(FloorDiv(y, TILE_SIZE), 0, g.height - 1) * g.width
    + Clamp(FloorDiv(x, TILE_SIZE), 0, g.width - 1)
NearestCellOfPoint(g, p) ==
  Clamp(FloorDiv(p[2], TILE_SIZE * Scale), 0, g.height - 1) * g.width
    + Clamp(FloorDiv(p[1], TILE_SIZE * Scale), 0, g.width - 1)

C7_ClampToNearestCell ==
  (q.pc = "done" /\ Outside(map, q.pos)) =>
    /\ q.index \in 0..(Len(map.tiles) - 1)
    /\ q.tile = map.tiles[NearestCellOfPoint(map, q.pos) + 1]
    /\ q.solid = IsSolidTile(map.tiles[NearestCellOfPoint(map, q.pos) + 1])

\* C7 amended: get_tile and is_solid first round each coordinate to the
\* nearest integer (half to even); for a coordinate outside the grid they
\* return the value of the in-bounds cell nearest to the rounded
\* coordinate, and the index read is within the tile list.
C7_ClampRounded ==
  (q.pc = "done" /\ Outside(map, q.pos)) =>
    LET cell == NearestCell(map, PyRound(q.pos[1]), PyRound(q.pos[2]))
    IN  /\ q.index \in 0..(Len(map.tiles) - 1)
        /\ q.index = cell
        /\ q.tile = map.tiles[cell + 1]
        /\ q.solid = IsSolidTile(map.tiles[cell + 1])

C7_Witness ==
  /\ q.pc = "done"
  /\ map.width = 2
  /\ map.height = 2
  /\ q.pos[1] < -TILE_SIZE * Scale
  /\ q.pos[2] >= map.height * TILE_SIZE * Scale
  /\ q.index = 2
  /\ q.tile = FINISH

\* C1: Game.logic(tick) changes the lap timer by the tile under the
\* player's position after physics: START sets begin to tick; FINISH with
\* begin >= 0 sets finish to tick - begin, begin to -1, and best to finish
\* iff best < 0 or finish < best; anything else changes nothing.
C1_LapTimerRule ==
  [][pc = "logic" =>
       LET tile == get_tile(map, pos)
       IN  /\ tile = START =>
                (/\ time'.begin = tick
                 /\ time'.finish = time.finish
                 /\ time'.best = time.best)
           /\ (tile = FINISH /\ time.begin >= 0) =>
                (/\ time'.finish = tick - time.begin
                 /\ time'.begin = -1
                 /\ time'.best = IF time.best < 0 \/ time'.finish < time.best
                                 THEN time'.finish ELSE time.best)
           /\ ((tile = FINISH /\ time.begin < 0) \/ tile \notin {START, FINISH})
                => time' = time]_vars

\* a second lap, slower than the best one, has just been timed
C1_Witness ==
  /\ pc \in {"physics", "render"}
  /\ Len(processed) > 0
  /\ get_tile(map, pos) = FINISH
  /\ time.begin = -1
  /\ time.best >= 0
  /\ time.finish > time.best

\* C2: a physics tick in which RESTART is held starts from position
\* (170, 500) and velocity (0, 0) whatever the body was, sets begin and
\* finish to -1 and leaves best unchanged.
SpawnBody(best) ==
  [pos |-> <<SPAWN_X * Scale, SPAWN_Y * Scale>>, vel |-> <<0, 0>>,
   time |-> [begin |-> -1, finish |-> -1, best |-> best]]

C2_RestartResets ==
  [][(pc = "physics" /\ "RESTART" \in inputs) =>
       LET fresh == physics(map, SpawnBody(time.best), inputs \ {"RESTART"})
       IN  /\ restart(Body) = SpawnBody(time.best)
           /\ pos' = fresh.pos
           /\ vel' = fresh.vel
           /\ time' = [begin |-> -1, finish |-> -1, best |-> time.best]]_vars

\* RESTART has just been applied to a body that had moved and timed a lap
C2_Witness ==
  /\ pc = "logic"
  /\ "RESTART" \in inputs
  /\ Len(processed) = 6
  /\ time.best >= 0
  /\ time.finish = -1
  /\ time.begin = -1

\* C6: at the end of every physics tick velocity.x lies in [-8, 8], and
\* move_box returns the x velocity it was given or 0.
C6_SpeedClamp ==
  [][pc = "physics" =>
       LET b1 == IF "RESTART" \in inputs THEN restart(Body) ELSE Body
           k == Kinematics(b1, inputs, on_ground(map, b1.pos, PlayerSize))
       IN  /\ vel'[1] \in {k[1], 0}
           /\ vel'[1] >= -(MAX_SPEED * Scale)
           /\ vel'[1] <= MAX_SPEED * Scale]_vars

\* the player has landed at full speed
C6_Witness ==
  /\ pc = "logic"
  /\ vel[1] = MAX_SPEED * Scale
  /\ on_ground(map, pos, PlayerSize)

\* C9: while no clock reading is below the one before it, the ticks passed
\* to logic are 1, 2, 3, ... up to the current tick, each once and in
\* order, and physics has run for a tick before logic runs for it.
C9_TickOrder ==
  monotone =>
    /\ \A i \in 1..Len(processed) : processed[i] = i
    /\ pc \in {"loop", "clock", "done"} => Len(processed) = last_tick
    /\ pc = "render" => Len(processed) = new_tick
    /\ pc = "physics" =>
         (tick = Len(processed) + 1 /\ physics_runs = Len(processed))
    /\ pc = "logic" =>
         (tick = Len(processed) + 1 /\ physics_runs = Len(processed) + 1)

\* three ticks processed over at least two frames
C9_Witness ==
  /\ monotone
  /\ pc = "render"
  /\ processed = <<1, 2, 3>>
  /\ last_tick \in {1, 2}

\* C10: from a free spawn position no sub-step of move_box, and so no
\* physics tick, leaves the box with a sampled corner on a solid tile.
C10_NeverInTerrain ==
  [][(pc = "physics" /\ ~test_box(map, SpawnPos, PlayerSize)) =>
       LET b1 == IF "RESTART" \in inputs THEN restart(Body) ELSE Body
           k == Kinematics(b1, inputs, on_ground(map, b1.pos, PlayerSize))
       IN  /\ ~test_box(map, b1.pos, PlayerSize)
           /\ \A p \in MovePath(map, b1.pos, k, PlayerSize) :
                ~test_box(map, p, PlayerSize)
           /\ ~test_box(map, pos', PlayerSize)]_vars

\* the player has landed: the ground stopped the fall
C10_Witness ==
  /\ pc = "logic"
  /\ ~test_box(map, SpawnPos, PlayerSize)
  /\ on_ground(map, pos, PlayerSize)
  /\ vel[2] = 0
  /\ ~test_box(map, pos, PlayerSize)

====
